---- MODULE Spec2Model ----
(***************************************************************************)
(* A model of the firstdutymedia_ai services: the OCR/PDF text extraction  *)
(* pipeline (com/mhire/app/services/extraction), the bias analysis and     *)
(* bias removal request flows (com/mhire/app/services), and the batch      *)
(* analysis endpoint of the dashboard backend (others/main.py), and the    *)
(* server process that imports the application, builds the configuration   *)
(* singleton and runs the handlers on one event loop (main.py, config.py). *)
(*                                                                         *)
(* Python strings are modelled as sequences of one-character strings, so   *)
(* that lower(), strip(), endswith(), substring tests and concatenation    *)
(* are computed and not assumed.                                           *)
(***************************************************************************)
EXTENDS Integers, Sequences, FiniteSets, TLC

(***************************************************************************)
(* Bounds of the model.                                                    *)
(***************************************************************************)
\* the largest number of pages of a modelled PDF document
MaxPages == 2

(***************************************************************************)
(* Python string operations.                                               *)
(***************************************************************************)
UpperChars == <<"A", "B", "C", "D", "E", "F", "G", "H", "I", "J", "K", "L", "M",
                "N", "O", "P", "Q", "R", "S", "T", "U", "V", "W", "X", "Y", "Z">>
LowerChars == <<"a", "b", "c", "d", "e", "f", "g", "h", "i", "j", "k", "l", "m",
                "n", "o", "p", "q", "r", "s", "t", "u", "v", "w", "x", "y", "z">>

\* str.lower() on one character
LowerChar(c) ==
    IF \E i \in 1..Len(UpperChars) : UpperChars[i] = c
    THEN LowerChars[CHOOSE i \in 1..Len(UpperChars) : UpperChars[i] = c]
    ELSE c

\* str.lower()
Lower(s) == [i \in 1..Len(s) |-> LowerChar(s[i])]

\* s.endswith(suffix)
EndsWith(s, suffix) ==
    /\ Len(suffix) <= Len(s)
    /\ SubSeq(s, Len(s) - Len(suffix) + 1, Len(s)) = suffix

\* sub in s
Contains(s, sub) ==
    \E i \in 1..(Len(s) - Len(sub) + 1) : SubSeq(s, i, i + Len(sub) - 1) = sub

\* the characters str.strip() removes
Whitespace == {" ", "\n", "\t"}

\* str.lstrip(): drop the leading whitespace only
StripLeadingOnly(s) ==
    LET keep == {i \in 1..Len(s) : s[i] \notin Whitespace}
    IN  IF keep = {} THEN <<>>
        ELSE LET first == CHOOSE i \in keep : \A j \in keep : i <= j
             IN  SubSeq(s, first, Len(s))

\* str.strip(): drop the leading and the trailing whitespace
Strip(s) ==
    LET keep == {i \in 1..Len(s) : s[i] \notin Whitespace}
    IN  IF keep = {} THEN <<>>
        ELSE LET first == CHOOSE i \in keep : \A j \in keep : i <= j
                 last  == CHOOSE i \in keep : \A j \in keep : j <= i
             IN  SubSeq(s, first, last)

\* an optional string argument: None, or a string value (possibly empty)
None == [some |-> FALSE, val |-> <<>>]
Some(s) == [some |-> TRUE, val |-> s]

\* Python truthiness of an optional string: None and "" are false
Truthy(o) == o.some /\ o.val # <<>>

(***************************************************************************)
(* ExtractionService.detect_file_type                                     *)
(***************************************************************************)
APPLICATION_PDF == <<"a", "p", "p", "l", "i", "c", "a", "t", "i", "o", "n", "/", "p", "d", "f">>
DOT_PDF == <<".", "p", "d", "f">>
IMAGE_JPEG == <<"i", "m", "a", "g", "e", "/", "j", "p", "e", "g">>
IMAGE_PNG == <<"i", "m", "a", "g", "e", "/", "p", "n", "g">>
IMAGE_JPG == <<"i", "m", "a", "g", "e", "/", "j", "p", "g">>
IMAGE_WEBP == <<"i", "m", "a", "g", "e", "/", "w", "e", "b", "p">>
IMAGE_TIFF == <<"i", "m", "a", "g", "e", "/", "t", "i", "f", "f">>
DOT_JPG == <<".", "j", "p", "g">>
DOT_JPEG == <<".", "j", "p", "e", "g">>
DOT_PNG == <<".", "p", "n", "g">>
DOT_WEBP == <<".", "w", "e", "b", "p">>
DOT_TIFF == <<".", "t", "i", "f", "f">>
DOT_BMP == <<".", "b", "m", "p">>
DOT_GIF == <<".", "g", "i", "f">>

image_types == {IMAGE_JPEG, IMAGE_PNG, IMAGE_JPG, IMAGE_WEBP, IMAGE_TIFF}
image_extensions == {DOT_JPG, DOT_JPEG, DOT_PNG, DOT_WEBP, DOT_TIFF, DOT_BMP, DOT_GIF}

\* content_type.lower() if content_type else ""
LowerOrEmpty(o) == IF Truthy(o) THEN Lower(o.val) ELSE <<>>

\* a mutant of IsPdf: the filename extension is not consulted
IsPdfMimeOnly(content_type_lower, filename_lower) ==
    content_type_lower = APPLICATION_PDF

\* the PDF test of line 32
IsPdf(content_type_lower, filename_lower) ==
    content_type_lower = APPLICATION_PDF \/ EndsWith(filename_lower, DOT_PDF)

\* a mutant of IsImage: the MIME type must equal an image type
IsImageMimeEqual(content_type_lower, filename_lower) ==
    \/ \E img_type \in image_types : content_type_lower = img_type
    \/ \E ext \in image_extensions : EndsWith(filename_lower, ext)

\* the image test of lines 39-40
IsImage(content_type_lower, filename_lower) ==
    \/ \E img_type \in image_types : Contains(content_type_lower, img_type)
    \/ \E ext \in image_extensions : EndsWith(filename_lower, ext)

\* "pdf", "image", or "ValueError" when the function raises
detect_file_type(ct, fn) ==
    LET content_type_lower == LowerOrEmpty(ct)
        filename_lower == LowerOrEmpty(fn)
    IN  IF IsPdf(content_type_lower, filename_lower) THEN "pdf"
        ELSE IF IsImage(content_type_lower, filename_lower) THEN "image"
        ELSE "ValueError"

(***************************************************************************)
(* The uploads and the library behaviours the extraction flow is run on.   *)
(***************************************************************************)
\* file.content_type of the upload: absent, empty, or a MIME string
ContentTypes ==
    { None, Some(<<>>),
      Some(APPLICATION_PDF),
      \* Application/PDF
      Some(<<"A", "p", "p", "l", "i", "c", "a", "t", "i", "o", "n", "/", "P", "D", "F">>),
      \* application/pdfx
      Some(<<"a", "p", "p", "l", "i", "c", "a", "t", "i", "o", "n", "/", "p", "d", "f", "x">>),
      Some(IMAGE_JPEG), Some(IMAGE_PNG), Some(IMAGE_JPG), Some(IMAGE_WEBP), Some(IMAGE_TIFF),
      \* IMAGE/PNG
      Some(<<"I", "M", "A", "G", "E", "/", "P", "N", "G">>),
      \* image/png;q=1
      Some(<<"i", "m", "a", "g", "e", "/", "p", "n", "g", ";", "q", "=", "1">>),
      \* image/bmp
      Some(<<"i", "m", "a", "g", "e", "/", "b", "m", "p">>),
      \* image/gif
      Some(<<"i", "m", "a", "g", "e", "/", "g", "i", "f">>),
      \* text/plain
      Some(<<"t", "e", "x", "t", "/", "p", "l", "a", "i", "n">>) }

\* file.filename of the upload: absent, empty, or a name
Filenames ==
    { None, Some(<<>>),
      \* x.jpg
      Some(<<"x", ".", "j", "p", "g">>),
      \* report.PDF
      Some(<<"r", "e", "p", "o", "r", "t", ".", "P", "D", "F">>),
      \* a.pdf
      Some(<<"a", ".", "p", "d", "f">>),
      \* x.txt
      Some(<<"x", ".", "t", "x", "t">>),
      \* scan
      Some(<<"s", "c", "a", "n">>),
      \* a.jpeg
      Some(<<"a", ".", "j", "p", "e", "g">>),
      \* a.png
      Some(<<"a", ".", "p", "n", "g">>),
      \* a.webp
      Some(<<"a", ".", "w", "e", "b", "p">>),
      \* a.tiff
      Some(<<"a", ".", "t", "i", "f", "f">>),
      \* a.bmp
      Some(<<"a", ".", "b", "m", "p">>),
      \* A.GIF
      Some(<<"A", ".", "G", "I", "F">>),
      \* a.pdf.txt
      Some(<<"a", ".", "p", "d", "f", ".", "t", "x", "t">>),
      \* pdf
      Some(<<"p", "d", "f">>) }

\* the exception types a PDF or OCR library call can raise
LibraryErrors == {"ValueError", "RuntimeError", "OSError"}

\* the texts page.get_text() and pytesseract.image_to_string() can return
LibraryTexts ==
    { <<>>, <<"A">>, <<"B">>, <<" ", "A", "\n">>, <<"\t", "A", " ", "B", " ">> }

\* what reading one page does: return a text, or raise
PageOutcomes ==
    [raises : {"none"}, text : LibraryTexts] \cup [raises : LibraryErrors, text : {<<>>}]

\* the documents pymupdf.open() can return: the outcome of every page
PdfDocuments == UNION { [1..n -> PageOutcomes] : n \in 0..MaxPages }

\* the colour models of a decoded image
ImageModes == {"RGB", "RGBA", "L", "LA", "P", "PA"}

(***************************************************************************)
(* State.  Each flow is one request handler with its own variables; a      *)
(* specification runs one flow and leaves the variables of the others at   *)
(* their initial values.                                                   *)
(***************************************************************************)
\* the extraction request: POST /extraction/extract
VARIABLES
    extract_pc,      \* position of the handler: idle, pdf_open, pdf_pages,
                     \* image_open, image_ocr, done
    content_type,    \* file.content_type
    filename,        \* file.filename
    file_type,       \* result of detect_file_type: none, pdf, image, ValueError
    pdf_document,    \* the pages of the opened document
    doc_state,       \* the document handle: none, open, closed
    page_num,        \* loop index of extract_text_from_pdf
    text,            \* the text accumulated / returned by the extraction routine
    decoded_mode,    \* image.mode of the image Image.open returned
    image_mode,      \* mode of the image handed to the OCR engine
    lib_error,       \* type of the exception a library call raised, or none
    extract_status,  \* HTTP status of the response, 0 before it is sent
    extract_body     \* ExtractionResponse.text of a 200 response

\* the score classifier applied to one score
VARIABLES
    score,           \* the argument of determine_bias_type
    bias_type,       \* its result, none before the call
    bias_classification, \* the result of _get_bias_classification(score)
    prompt_breakdown,    \* bias_metadata.bias_breakdown of a v1 rewrite request
    prompt_categories    \* the category lines rendered into the v1 prompt

\* an analysis or rewrite request: POST /api/v1/analyze, /api/v1/remove-bias,
\* /api/v2/remove-bias
VARIABLES
    bias_pc,         \* position of the handler: idle, llm, done
    endpoint,        \* analyze, remove_bias, remove_bias_different
    request_text,    \* request.text
    llm_calls,       \* number of calls made to openai.chat.completions.create
    gpt_response,    \* what the call produced
    bias_status,     \* HTTP status of the response, 0 before it is sent
    bias_body,       \* body of a 200 response
    bias_steps       \* the steps the service has taken so far, in order

\* the batch request of the dashboard backend: POST /api/v1/analyze/batch
VARIABLES
    batch_pc,        \* position of the handler: idle, loop, llm, done
    documents,       \* request.documents
    doc_index,       \* number of documents the loop has finished with
    doc_outcome,     \* per document: pending, ok, or the failure it ended with
    results,         \* the list of analyses appended so far
    batch_llm_calls, \* number of calls made to the LLM by this request
    batch_status,    \* HTTP status of the response, 0 before it is sent
    batch_body       \* the BatchAnalyzeResponse of a 200 response

\* one call of call_gpt4_for_variants of the dashboard backend
VARIABLES
    variants_pc,       \* position of the function: idle, loop, llm, done
    cleaned_text,      \* the argument cleaned_text
    variant_index,     \* number of entries of variant_types[1:] the loop is done with
    variants,          \* the list variants
    variant_outcomes,  \* what each LLM call made so far produced
    variant_llm_calls  \* number of calls made to openai.chat.completions.create

\* the server process of com/mhire/app/main.py: module import, the
\* configuration singleton, and the health requests
VARIABLES
    app_state,       \* position of the process: init, import_bias_free,
                     \* import_bias_free_different, running, failed
    environ,         \* os.environ["OPENAI_API_KEY"]: None or a string
    config_instance, \* Config._instance
    env_reads,       \* number of times Config.__new__ has read the environment
    openai_api_key,  \* the module attribute openai.api_key
    configs_returned,\* the instances Config() has returned so far
    health_pc,       \* position of a health request: idle, sent, done
    health_endpoint, \* the route of the health request
    health_body      \* the body of its answer

extract_vars == <<extract_pc, content_type, filename, file_type, pdf_document,
                  doc_state, page_num, text, decoded_mode, image_mode, lib_error,
                  extract_status, extract_body>>
score_vars == <<score, bias_type, bias_classification, prompt_breakdown,
                prompt_categories>>
bias_vars == <<bias_pc, endpoint, request_text, llm_calls, gpt_response,
               bias_status, bias_body, bias_steps>>
batch_vars == <<batch_pc, documents, doc_index, doc_outcome, results,
                batch_llm_calls, batch_status, batch_body>>
config_vars == <<environ, config_instance, env_reads, openai_api_key,
                 configs_returned>>
health_vars == <<health_pc, health_endpoint, health_body>>
server_vars == <<app_state, config_vars, health_vars>>
variant_vars == <<variants_pc, cleaned_text, variant_index, variants,
                  variant_outcomes, variant_llm_calls>>
vars == <<extract_vars, score_vars, bias_vars, batch_vars, variant_vars,
          server_vars>>

(***************************************************************************)
(* The extraction request: POST /extraction/extract.                       *)
(***************************************************************************)
ExtractInit ==
    /\ extract_pc = "idle"
    /\ content_type = None
    /\ filename = None
    /\ file_type = "none"
    /\ pdf_document = <<>>
    /\ doc_state = "none"
    /\ page_num = 0
    /\ text = <<>>
    /\ decoded_mode = "none"
    /\ image_mode = "none"
    /\ lib_error = "none"
    /\ extract_status = 0
    /\ extract_body = <<>>

\* a mutant of WrapPdfError: the library's exception propagates as it is
WrapPdfErrorKeepsType(e) == e

\* except Exception as e: raise Exception(...) in extract_text_from_pdf
WrapPdfError(e) == "Exception"

\* except Exception as e: raise Exception(...) in extract_text_from_image
WrapImageError(e) == "Exception"

\* the except clauses of the router: ValueError -> 400, any other Exception -> 500
RouterStatus(exc) == IF exc = "ValueError" THEN 400 ELSE 500

\* a mutant of NeedsSeparator: a separator follows every page
SeparatorAfterEveryPage(n, page_count) == TRUE

\* if page_num < pdf_document.page_count - 1
NeedsSeparator(n, page_count) == n < page_count - 1

PAGE_SEPARATOR == <<"\n", "\n">>

\* the handler up to the dispatch of ExtractionService.extract_text: the file
\* type is detected; an unsupported type ends the request with 400
ExtractRequest ==
    /\ extract_pc = "idle"
    /\ \E ct \in ContentTypes, fn \in Filenames :
         /\ content_type' = ct
         /\ filename' = fn
         /\ file_type' = detect_file_type(ct, fn)
    /\ IF file_type' = "ValueError"
       THEN /\ extract_status' = RouterStatus("ValueError")
            /\ extract_pc' = "done"
       ELSE /\ extract_status' = 0
            /\ extract_pc' = IF file_type' = "pdf" THEN "pdf_open" ELSE "image_open"
    /\ UNCHANGED <<pdf_document, doc_state, page_num, text, decoded_mode, image_mode, lib_error,
                   extract_body>>
    /\ UNCHANGED <<score_vars, bias_vars, batch_vars, variant_vars, server_vars>>

\* pymupdf.open(stream=pdf_bytes, filetype="pdf") returns a document
PdfOpen ==
    /\ extract_pc = "pdf_open"
    /\ \E doc \in PdfDocuments : pdf_document' = doc
    /\ doc_state' = "open"
    /\ page_num' = 0
    /\ text' = <<>>
    /\ extract_pc' = "pdf_pages"
    /\ UNCHANGED <<content_type, filename, file_type, decoded_mode, image_mode, lib_error,
                   extract_status, extract_body>>
    /\ UNCHANGED <<score_vars, bias_vars, batch_vars, variant_vars, server_vars>>

\* pymupdf.open raises: no document was opened
PdfOpenFails ==
    /\ extract_pc = "pdf_open"
    /\ \E e \in LibraryErrors :
         /\ lib_error' = e
         /\ extract_status' = RouterStatus(WrapPdfError(e))
    /\ extract_pc' = "done"
    /\ UNCHANGED <<content_type, filename, file_type, pdf_document, doc_state,
                   page_num, text, decoded_mode, image_mode, extract_body>>
    /\ UNCHANGED <<score_vars, bias_vars, batch_vars, variant_vars, server_vars>>

\* one iteration of the page loop whose get_text() returns
PdfGetText ==
    /\ extract_pc = "pdf_pages"
    /\ page_num < Len(pdf_document)
    /\ pdf_document[page_num + 1].raises = "none"
    /\ text' = text \o pdf_document[page_num + 1].text
                    \o (IF NeedsSeparator(page_num, Len(pdf_document))
                        THEN PAGE_SEPARATOR ELSE <<>>)
    /\ page_num' = page_num + 1
    /\ UNCHANGED <<extract_pc, content_type, filename, file_type, pdf_document,
                   doc_state, decoded_mode, image_mode, lib_error, extract_status, extract_body>>
    /\ UNCHANGED <<score_vars, bias_vars, batch_vars, variant_vars, server_vars>>

\* one iteration of the page loop whose get_text() raises: control leaves the
\* loop for the except clause, and pdf_document.close() is not reached
PdfGetTextFails ==
    /\ extract_pc = "pdf_pages"
    /\ page_num < Len(pdf_document)
    /\ pdf_document[page_num + 1].raises # "none"
    /\ lib_error' = pdf_document[page_num + 1].raises
    /\ extract_status' = RouterStatus(WrapPdfError(lib_error'))
    /\ extract_pc' = "done"
    /\ UNCHANGED <<content_type, filename, file_type, pdf_document, doc_state,
                   page_num, text, decoded_mode, image_mode, extract_body>>
    /\ UNCHANGED <<score_vars, bias_vars, batch_vars, variant_vars, server_vars>>

\* the loop is over: pdf_document.close(), return text; extract_text strips it
\* and the router answers 200
PdfClose ==
    /\ extract_pc = "pdf_pages"
    /\ page_num = Len(pdf_document)
    /\ doc_state' = "closed"
    /\ extract_body' = Strip(text)
    /\ extract_status' = 200
    /\ extract_pc' = "done"
    /\ UNCHANGED <<content_type, filename, file_type, pdf_document, page_num,
                   text, decoded_mode, image_mode, lib_error>>
    /\ UNCHANGED <<score_vars, bias_vars, batch_vars, variant_vars, server_vars>>

\* if image.mode == 'RGBA': image = image.convert('RGB')
ModeHandedToOcr(mode) == IF mode = "RGBA" THEN "RGB" ELSE mode

\* Image.open returns an image; an RGBA image is converted to RGB
ImageOpen ==
    /\ extract_pc = "image_open"
    /\ \E mode \in ImageModes :
         /\ decoded_mode' = mode
         /\ image_mode' = ModeHandedToOcr(mode)
    /\ extract_pc' = "image_ocr"
    /\ UNCHANGED <<content_type, filename, file_type, pdf_document, doc_state,
                   page_num, text, lib_error, extract_status, extract_body>>
    /\ UNCHANGED <<score_vars, bias_vars, batch_vars, variant_vars, server_vars>>

\* Image.open raises
ImageOpenFails ==
    /\ extract_pc = "image_open"
    /\ \E e \in LibraryErrors :
         /\ lib_error' = e
         /\ extract_status' = RouterStatus(WrapImageError(e))
    /\ extract_pc' = "done"
    /\ UNCHANGED <<content_type, filename, file_type, pdf_document, doc_state,
                   page_num, text, decoded_mode, image_mode, extract_body>>
    /\ UNCHANGED <<score_vars, bias_vars, batch_vars, variant_vars, server_vars>>

\* pytesseract.image_to_string returns; extract_text strips the text and the
\* router answers 200
ImageToString ==
    /\ extract_pc = "image_ocr"
    /\ \E t \in LibraryTexts :
         /\ text' = t
         /\ extract_body' = Strip(t)
    /\ extract_status' = 200
    /\ extract_pc' = "done"
    /\ UNCHANGED <<content_type, filename, file_type, pdf_document, doc_state,
                   page_num, decoded_mode, image_mode, lib_error>>
    /\ UNCHANGED <<score_vars, bias_vars, batch_vars, variant_vars, server_vars>>

\* pytesseract.image_to_string raises
ImageToStringFails ==
    /\ extract_pc = "image_ocr"
    /\ \E e \in LibraryErrors :
         /\ lib_error' = e
         /\ extract_status' = RouterStatus(WrapImageError(e))
    /\ extract_pc' = "done"
    /\ UNCHANGED <<content_type, filename, file_type, pdf_document, doc_state,
                   page_num, text, decoded_mode, image_mode, extract_body>>
    /\ UNCHANGED <<score_vars, bias_vars, batch_vars, variant_vars, server_vars>>

ExtractNext ==
    \/ ExtractRequest
    \/ PdfOpen
    \/ PdfOpenFails
    \/ PdfGetText
    \/ PdfGetTextFails
    \/ PdfClose
    \/ ImageOpen
    \/ ImageOpenFails
    \/ ImageToString
    \/ ImageToStringFails

(***************************************************************************)
(* The score classifier of the analysis service, applied to one score.     *)
(***************************************************************************)
\* the lowest and the highest score the response schemas accept
SCORE_MIN == 0
SCORE_MAX == 100

\* how far outside the schema's range a modelled score can lie
ScoreSlack == 2

\* the scores the classifier is applied to
Scores == (SCORE_MIN - ScoreSlack)..(SCORE_MAX + ScoreSlack)

\* a mutant of determine_bias_type: the comparisons are strict
determine_bias_type_strict(s) ==
    IF s > 67 THEN "Low Bias"
    ELSE IF s > 34 THEN "Moderate Bias"
    ELSE "High Bias"

\* BiasAnalysisService.determine_bias_type
determine_bias_type(s) ==
    IF s >= 67 THEN "Low Bias"
    ELSE IF s >= 34 THEN "Moderate Bias"
    ELSE "High Bias"

\* a classifier whose High band ends at 32
get_bias_classification_off_by_one(s) ==
    IF s < 33 THEN "High Bias (severely problematic)"
    ELSE IF s <= 66 THEN "Moderate Bias (some concerns)"
    ELSE "Low Bias (trustworthy, neutral)"

\* BiasFreeService._get_bias_classification of the v2 rewrite service
get_bias_classification(s) ==
    IF s <= 33 THEN "High Bias (severely problematic)"
    ELSE IF s <= 66 THEN "Moderate Bias (some concerns)"
    ELSE "Low Bias (trustworthy, neutral)"

\* the label rendered for one listed category in the v1 rewrite prompt
prompt_label(s) == IF s < 34 THEN "High Bias" ELSE "Moderate Bias"

\* _create_rewrite_prompt of the v1 rewrite service: the categories with
\* score < 67, each rendered with its name, its score and its label
problematic_categories(bias_breakdown) ==
    LET problematic(item) == item.score < 67
        listed == SelectSeq(bias_breakdown, problematic)
    IN  [i \in DOMAIN listed |->
            [category_name |-> listed[i].category_name,
             score |-> listed[i].score,
             label |-> prompt_label(listed[i].score)]]

\* the scores of the other category of a modelled breakdown
OtherScores == {0, 33, 34, 66, 67, 100}

\* the breakdowns of a v1 rewrite request that hold a category with the
\* given score: that category and one other, in either order
BreakdownsWith(s) ==
    UNION { { << [category_name |-> "Gender Bias", score |-> s],
                 [category_name |-> "Framing Bias", score |-> o] >>,
              << [category_name |-> "Framing Bias", score |-> o],
                 [category_name |-> "Gender Bias", score |-> s] >> }
            : o \in OtherScores }

ScoreInit ==
    /\ score \in Scores
    /\ bias_type = "none"
    /\ bias_classification = "none"
    /\ prompt_breakdown = <<>>
    /\ prompt_categories = <<>>

\* one call of determine_bias_type(score)
DetermineBiasType ==
    /\ bias_type = "none"
    /\ bias_type' = determine_bias_type(score)
    /\ UNCHANGED <<score, bias_classification, prompt_breakdown, prompt_categories>>
    /\ UNCHANGED <<extract_vars, bias_vars, batch_vars, variant_vars, server_vars>>

\* one call of _get_bias_classification(score)
GetBiasClassification ==
    /\ bias_classification = "none"
    /\ bias_classification' = get_bias_classification(score)
    /\ UNCHANGED <<score, bias_type, prompt_breakdown, prompt_categories>>
    /\ UNCHANGED <<extract_vars, bias_vars, batch_vars, variant_vars, server_vars>>

\* one call of _create_rewrite_prompt with a breakdown that holds a category
\* with this score
CreateRewritePrompt ==
    /\ prompt_breakdown = <<>>
    /\ \E b \in BreakdownsWith(score) :
         /\ prompt_breakdown' = b
         /\ prompt_categories' = problematic_categories(b)
    /\ UNCHANGED <<score, bias_type, bias_classification>>
    /\ UNCHANGED <<extract_vars, bias_vars, batch_vars, variant_vars, server_vars>>

ScoreNext ==
    \/ DetermineBiasType
    \/ GetBiasClassification
    \/ CreateRewritePrompt

(***************************************************************************)
(* The analysis and rewrite requests of the three bias services.           *)
(***************************************************************************)
\* the largest number of categories in a modelled LLM answer
MaxCategories == 2

\* request.text: the schema requires a string, which may be empty
RequestTexts ==
    { <<>>, <<" ">>, <<"\n">>, <<" ", "\t">>, <<"a">>, <<" ", "a", "\n">>,
      <<"a", " ", "b">> }

Endpoints == {"analyze", "remove_bias", "remove_bias_different"}

\* a mutant of IsBlank: the text is not stripped before its length is taken
IsBlankNoStrip(t) == t = <<>> \/ Len(t) = 0

\* not text or len(text.strip()) == 0
IsBlank(t) == t = <<>> \/ Len(Strip(t)) = 0

\* the category scores and overall scores an LLM answer can carry
CategoryScores == {-1, 0, 1, 66, 67, 100, 101}
OverallScores == {-1, 0, 33, 34, 66, 67, 100, 101}

Categories ==
    [category_name : {"Gender Bias", "Framing Bias"}, score : CategoryScores]
CategoryLists == UNION { [1..n -> Categories] : n \in 0..MaxCategories }

DEFAULT_TITLE == "Bias Analysis Session"

\* the parsed JSON objects of the analysis flow: keys lists the keys present
AnalysisKeys == {"overall_score", "title", "categories", "summary"}
AnalysisJson ==
    [keys : {AnalysisKeys, AnalysisKeys \ {"title"}},
     overall_score : OverallScores, title : {"Job Posting"},
     categories : CategoryLists, summary : {"Loaded language."},
     bias_free_text : {<<>>}]
    \cup
    [keys : {AnalysisKeys \ {k} : k \in {"overall_score", "categories", "summary"}},
     overall_score : {45}, title : {"Job Posting"},
     categories : {<<>>}, summary : {"Loaded language."},
     bias_free_text : {<<>>}]

\* the parsed JSON objects of the rewrite flows
RewriteJson ==
    [keys : {{"bias_free_text"}, {"bias_free_text", "changes_made"}, {"changes_made"}, {}},
     overall_score : {0}, title : {""}, categories : {<<>>}, summary : {""},
     bias_free_text : {<<>>, <<"a">>, <<" ", "a", "\n">>}]

NoJson ==
    [keys |-> {}, overall_score |-> 0, title |-> "", categories |-> <<>>,
     summary |-> "", bias_free_text |-> <<>>]

\* what openai.chat.completions.create followed by json.loads can produce
LlmFailures == {"api_error", "bad_json"}
NoResponse == [kind |-> "none", json |-> NoJson]

NoBody == [kind |-> "none"]

\* a count taken over the categories that stay in the breakdown
count_detected_biases_in_breakdown(categories) ==
    Cardinality({i \in DOMAIN categories :
                    categories[i].score > 0 /\ categories[i].score < 67})

\* BiasAnalysisService.count_detected_biases
count_detected_biases(categories) ==
    Cardinality({i \in DOMAIN categories : categories[i].score < 67})

\* a breakdown that keeps the categories with score 0
format_bias_breakdown_keep_zero(categories) ==
    LET detected(cat) == cat.score >= 0
    IN  SelectSeq(categories, detected)

\* a breakdown that clamps every score into 0..100 before the filter
format_bias_breakdown_clamped(categories) ==
    LET clamp(x) == IF x < 0 THEN 0 ELSE IF x > 100 THEN 100 ELSE x
        clamped == [i \in DOMAIN categories |->
                       [category_name |-> categories[i].category_name,
                        score |-> clamp(categories[i].score)]]
        detected(cat) == cat.score > 0
    IN  SelectSeq(clamped, detected)

\* BiasAnalysisService.format_bias_breakdown, before the items are validated
format_bias_breakdown(categories) ==
    LET detected(cat) == cat.score > 0
    IN  SelectSeq(categories, detected)

\* a schema without the range constraint
ScoreUnconstrained(s) == s \in Int

\* the Field(ge=0, le=100) constraint of the response schemas
ScoreValid(s) == SCORE_MIN <= s /\ s <= SCORE_MAX

\* a handler that also subscripts "title"
RequiredKeysWithTitle == {"overall_score", "title", "categories", "summary"}

\* the keys analyze_text reads by subscript: a missing one raises KeyError
RequiredKeys == {"overall_score", "categories", "summary"}

\* the part of BiasAnalysisService.analyze_text after the LLM call, and the
\* construction of AnalyzeResponse in the router: the response as
\* [status, body]
AnalyzeShape(json) ==
    LET bias_breakdown == format_bias_breakdown(json.categories)
    IN  IF ~(RequiredKeys \subseteq json.keys)
        THEN [status |-> 500, body |-> NoBody]        \* KeyError
        ELSE IF \E i \in DOMAIN bias_breakdown : ~ScoreValid(bias_breakdown[i].score)
        THEN [status |-> 500, body |-> NoBody]        \* BiasBreakdownItem rejects
        ELSE IF ~ScoreValid(json.overall_score)
        THEN [status |-> 500, body |-> NoBody]        \* AnalyzeResponse rejects
        ELSE [status |-> 200,
              body |-> [kind |-> "analysis",
                        overall_seev_score |-> json.overall_score,
                        title |-> IF "title" \in json.keys THEN json.title
                                  ELSE DEFAULT_TITLE,
                        bias_breakdown |-> bias_breakdown,
                        bias_type |-> determine_bias_type(json.overall_score),
                        analysis_summary |-> json.summary,
                        detected_bias_count |-> count_detected_biases(json.categories)]]

\* a rewrite answer that tidies the text and passes changes_made on
RewriteShapeTidied(json) ==
    IF "bias_free_text" \notin json.keys
    THEN [status |-> 500, body |-> NoBody]
    ELSE [status |-> 200,
          body |-> [kind |-> "rewrite", bias_free_text |-> Strip(json.bias_free_text),
                    changes_made |-> "changes_made" \in json.keys]]

\* the part of BiasFreeService.remove_bias after the LLM call (both services)
RewriteShape(json) ==
    IF "bias_free_text" \notin json.keys
    THEN [status |-> 500, body |-> NoBody]            \* KeyError
    ELSE [status |-> 200,
          body |-> [kind |-> "rewrite", bias_free_text |-> json.bias_free_text]]

BiasInit ==
    /\ bias_pc = "idle"
    /\ endpoint = "none"
    /\ request_text = <<>>
    /\ llm_calls = 0
    /\ gpt_response = NoResponse
    /\ bias_status = 0
    /\ bias_body = NoBody
    /\ bias_steps = <<>>

\* a service that calls the model before it has built the prompt
StepsCallBeforePrompt == <<"call", "prompt">>

\* analyze_with_gpt4 / rewrite_with_gpt4: the prompt is built, then
\* openai.chat.completions.create is called with it
StepsToCall == <<"prompt", "call">>

\* a request arrives at one of the three entry points; blank text ends it with
\* 400, any other text goes on to the LLM call
BiasRequest ==
    /\ bias_pc = "idle"
    /\ \E ep \in Endpoints, t \in RequestTexts :
         /\ endpoint' = ep
         /\ request_text' = t
    /\ IF IsBlank(request_text')
       THEN /\ bias_status' = 400
            /\ bias_pc' = "done"
            /\ llm_calls' = llm_calls
            /\ bias_steps' = <<"validate">>
       ELSE /\ bias_status' = 0
            /\ bias_pc' = "llm"
            /\ llm_calls' = llm_calls + 1
            /\ bias_steps' = <<"validate">> \o StepsToCall
    /\ UNCHANGED <<gpt_response, bias_body>>
    /\ UNCHANGED <<extract_vars, score_vars, batch_vars, variant_vars, server_vars>>

\* a handler that calls the LLM a second time after a failure
RetryAfterLlmFailure(calls) ==
    IF calls < 2 THEN [pc |-> "llm", status |-> 0, calls |-> calls + 1]
    ELSE [pc |-> "done", status |-> 500, calls |-> calls]

\* a handler that calls the LLM again after every failure
RetryUntilAnswered(calls) == [pc |-> "llm", status |-> 0, calls |-> calls]

\* the except clause around the LLM call and json.loads: the exception
\* becomes HTTPException(500), the router re-raises it, no further call
AfterLlmFailure(calls) == [pc |-> "done", status |-> 500, calls |-> calls]

\* the LLM call raises, or its payload is not JSON: HTTPException(500)
LlmFails ==
    /\ bias_pc = "llm"
    /\ \E k \in LlmFailures : gpt_response' = [kind |-> k, json |-> NoJson]
    /\ bias_status' = AfterLlmFailure(llm_calls).status
    /\ bias_pc' = AfterLlmFailure(llm_calls).pc
    /\ llm_calls' = AfterLlmFailure(llm_calls).calls
    /\ UNCHANGED <<endpoint, request_text, bias_body, bias_steps>>
    /\ UNCHANGED <<extract_vars, score_vars, batch_vars, variant_vars, server_vars>>

\* the LLM call of the analysis flow returns parsed JSON; the result is shaped
\* and answered
AnalyzeLlmReturns ==
    /\ bias_pc = "llm"
    /\ endpoint = "analyze"
    /\ gpt_response' \in [kind : {"json"}, json : AnalysisJson]
    /\ bias_status' = AnalyzeShape(gpt_response'.json).status
    /\ bias_body' = AnalyzeShape(gpt_response'.json).body
    /\ bias_steps' = Append(bias_steps, "shape")
    /\ bias_pc' = "done"
    /\ UNCHANGED <<endpoint, request_text, llm_calls>>
    /\ UNCHANGED <<extract_vars, score_vars, batch_vars, variant_vars, server_vars>>

\* the LLM call of a rewrite flow returns parsed JSON
RewriteLlmReturns ==
    /\ bias_pc = "llm"
    /\ endpoint \in {"remove_bias", "remove_bias_different"}
    /\ gpt_response' \in [kind : {"json"}, json : RewriteJson]
    /\ bias_status' = RewriteShape(gpt_response'.json).status
    /\ bias_body' = RewriteShape(gpt_response'.json).body
    /\ bias_steps' = Append(bias_steps, "shape")
    /\ bias_pc' = "done"
    /\ UNCHANGED <<endpoint, request_text, llm_calls>>
    /\ UNCHANGED <<extract_vars, score_vars, batch_vars, variant_vars, server_vars>>

BiasNext ==
    \/ BiasRequest
    \/ LlmFails
    \/ AnalyzeLlmReturns
    \/ RewriteLlmReturns

(***************************************************************************)
(* The batch request of the dashboard backend: POST /api/v1/analyze/batch. *)
(***************************************************************************)
\* the largest number of documents in a modelled batch
MaxDocs == 3

\* one entry of request.documents: a dict that may or may not hold "text"
Docs ==
    [has_text : {FALSE}, text : {<<>>}]
    \cup [has_text : {TRUE}, text : {<<>>, <<" ", "\n">>, <<"a">>}]
DocLists == UNION { [1..n -> Docs] : n \in 0..MaxDocs }

\* the bias_categories lists of a modelled LLM answer: empty, one valid entry,
\* an unknown category id, a score the schema rejects, a level outside the enum
MOCK_BIAS_CATEGORIES ==
    { "B1", "B2", "B3", "B4", "B5", "B6", "B7", "B8", "B9", "B10", "B11",
      "B12", "B13", "B14", "B15", "B16", "B17", "B18", "B19", "B20", "B21",
      "B22", "B23", "B24", "B25" }
BiasLevels == {"Low", "Medium", "High"}
DashCategoryLists ==
    { <<>>,
      <<[category_id |-> "B7", score |-> 65, level |-> "Medium"]>>,
      <<[category_id |-> "B99", score |-> 65, level |-> "Medium"]>>,
      <<[category_id |-> "B1", score |-> 101, level |-> "Low"]>>,
      <<[category_id |-> "B25", score |-> 20, level |-> "Severe"]>> }

\* the overall scores of a modelled LLM answer
DashScores == {-1, 0, 1, 100, 101}

\* the parsed JSON objects call_gpt4_for_analysis can return
DashboardJson ==
    [has_overall_score : BOOLEAN, overall_score : DashScores,
     has_cleaned_text : BOOLEAN, bias_categories : DashCategoryLists]

\* parse_gpt4_response: the exception it raises, or none
parse_gpt4_response(json) ==
    IF \E i \in DOMAIN json.bias_categories :
          json.bias_categories[i].category_id \notin MOCK_BIAS_CATEGORIES
    THEN "KeyError"
    ELSE IF \E i \in DOMAIN json.bias_categories :
          ~ScoreValid(json.bias_categories[i].score)
    THEN "ValidationError"
    ELSE IF \E i \in DOMAIN json.bias_categories :
          json.bias_categories[i].level \notin BiasLevels
    THEN "ValueError"
    ELSE IF ~json.has_overall_score \/ ~json.has_cleaned_text
    THEN "KeyError"
    ELSE IF ~ScoreValid(json.overall_score)
    THEN "ValidationError"
    ELSE "none"

\* a mutant of Caught: HTTPException is re-raised, as the other routers do
CaughtUnlessHttp(exc) == exc # "HTTPException"

\* except Exception as e (line 423): every failure of one document is caught
Caught(exc) == TRUE

\* the HTTP status an exception leaving the handler is answered with
UncaughtStatus(exc) == 500

RECURSIVE SumScores(_)
\* sum(r.overall_seev_score for r in results)
SumScores(rs) ==
    IF rs = <<>> THEN 0 ELSE rs[1].overall_seev_score + SumScores(Tail(rs))

\* a mutant of Round2: the average is truncated to a whole number
Round2Whole(num, den) == 100 * (num \div den)

\* round(num / den, 2) in hundredths, for num >= 0 and den > 0: Python rounds
\* to the nearest hundredth, a tie to the even one
Round2(num, den) ==
    LET q == (100 * num) \div den
        r == (100 * num) % den
    IN  IF 2 * r < den THEN q
        ELSE IF 2 * r > den THEN q + 1
        ELSE IF q % 2 = 0 THEN q ELSE q + 1

\* lines 429-437: the BatchAnalyzeResponse; average_seev_score is held in
\* hundredths
BatchResponse(rs) ==
    [total_documents |-> Len(rs),
     results |-> rs,
     average_seev_score_x100 |->
        IF rs # <<>> THEN Round2(SumScores(rs), Len(rs)) ELSE 0]

NoBatchBody == [total_documents |-> 0, results |-> <<>>, average_seev_score_x100 |-> 0]

BatchInit ==
    /\ batch_pc = "idle"
    /\ documents = <<>>
    /\ doc_index = 0
    /\ doc_outcome = <<>>
    /\ results = <<>>
    /\ batch_llm_calls = 0
    /\ batch_status = 0
    /\ batch_body = NoBatchBody

\* the loop goes on to the next document, or ends and the response is built
LoopGoesOn(rs) ==
    /\ doc_index' = doc_index + 1
    /\ results' = rs
    /\ IF doc_index' = Len(documents)
       THEN /\ batch_status' = 200
            /\ batch_body' = BatchResponse(rs)
            /\ batch_pc' = "done"
       ELSE /\ batch_status' = 0
            /\ batch_body' = batch_body
            /\ batch_pc' = "loop"

\* the analysis of the current document raised exc
DocFailed(exc) ==
    /\ doc_outcome' = [doc_outcome EXCEPT ![doc_index + 1] = exc]
    /\ IF Caught(exc)
       THEN LoopGoesOn(results)
       ELSE /\ batch_status' = UncaughtStatus(exc)
            /\ batch_pc' = "done"
            /\ UNCHANGED <<doc_index, results, batch_body>>

\* the analysis of the current document returned
DocSucceeded(overall_seev_score) ==
    /\ doc_outcome' = [doc_outcome EXCEPT ![doc_index + 1] = "ok"]
    /\ LoopGoesOn(Append(results, [doc |-> doc_index + 1,
                                   overall_seev_score |-> overall_seev_score]))

\* the request arrives; an empty list is answered at once
BatchRequest ==
    /\ batch_pc = "idle"
    /\ \E docs \in DocLists : documents' = docs
    /\ doc_outcome' = [i \in 1..Len(documents') |-> "pending"]
    /\ doc_index' = 0
    /\ results' = <<>>
    /\ IF documents' = <<>>
       THEN /\ batch_status' = 200
            /\ batch_body' = BatchResponse(<<>>)
            /\ batch_pc' = "done"
       ELSE /\ batch_status' = 0
            /\ batch_body' = batch_body
            /\ batch_pc' = "loop"
    /\ UNCHANGED batch_llm_calls
    /\ UNCHANGED <<extract_vars, score_vars, bias_vars, variant_vars, server_vars>>

\* a loop that starts the analysis and goes on without waiting for it
PcCallNotAwaited == "loop"

\* result = await analyze_text(analysis_request): the loop is inside the call
\* until it returns or raises
PcDuringCall == "llm"

\* the loop body up to the LLM call: doc["text"], the request model and the
\* empty-text test of analyze_text
BatchDocStart ==
    /\ batch_pc = "loop"
    /\ LET doc == documents[doc_index + 1]
       IN  IF ~doc.has_text
           THEN DocFailed("KeyError") /\ UNCHANGED batch_llm_calls
           ELSE IF IsBlank(doc.text)
           THEN DocFailed("HTTPException") /\ UNCHANGED batch_llm_calls
           ELSE /\ batch_pc' = PcDuringCall
                /\ batch_llm_calls' = batch_llm_calls + 1
                /\ UNCHANGED <<doc_index, doc_outcome, results, batch_status,
                               batch_body>>
    /\ UNCHANGED documents
    /\ UNCHANGED <<extract_vars, score_vars, bias_vars, variant_vars, server_vars>>

\* the LLM call raises or its payload is not JSON: call_gpt4_for_analysis
\* raises HTTPException(500)
BatchLlmFails ==
    /\ batch_pc = "llm"
    /\ DocFailed("HTTPException")
    /\ UNCHANGED <<documents, batch_llm_calls>>
    /\ UNCHANGED <<extract_vars, score_vars, bias_vars, variant_vars, server_vars>>

\* the LLM call returns parsed JSON and parse_gpt4_response shapes it
BatchLlmReturns ==
    /\ batch_pc = "llm"
    /\ \E json \in DashboardJson :
         LET exc == parse_gpt4_response(json)
         IN  IF exc = "none"
             THEN DocSucceeded(json.overall_score)
             ELSE DocFailed(exc)
    /\ UNCHANGED <<documents, batch_llm_calls>>
    /\ UNCHANGED <<extract_vars, score_vars, bias_vars, variant_vars, server_vars>>

BatchNext ==
    \/ BatchRequest
    \/ BatchDocStart
    \/ BatchLlmFails
    \/ BatchLlmReturns

(***************************************************************************)
(* The variant generator of the dashboard backend: call_gpt4_for_variants. *)
(***************************************************************************)
\* the first components of variant_types, in list order
variant_types ==
    << "SEEV-screened revised version",
       "Left-leaning neutral version",
       "Right-leaning neutral version",
       "Centrist version",
       "International perspective version",
       "Fact-only version",
       "Child-accessible version" >>

\* the cleaned texts the function is called with
CleanedTexts == { <<>>, <<"c">> }

\* what one LLM call produces: message.content, or an exception raised by the
\* call, or a content of None on which .strip() raises
VariantContents == { <<"a">>, <<" ", "b", "\n">> }
VariantFailures == {"api_error", "no_content"}

\* the text of the entry appended by the except clause
ErrorText(failure) == <<"Error generating variant: ", failure>>

\* an except clause that goes on to the next variant without an entry
SkipFailedVariant(vs, variant_type, failure) == vs

\* the except clause of the loop: an entry with the error message is appended
AppendFailedVariant(vs, variant_type, failure) ==
    Append(vs, [variant_type |-> variant_type, text |-> ErrorText(failure),
                error |-> TRUE])

VariantsInit ==
    /\ variants_pc = "idle"
    /\ cleaned_text = <<>>
    /\ variant_index = 0
    /\ variants = <<>>
    /\ variant_outcomes = <<>>
    /\ variant_llm_calls = 0

\* the call: the first variant is the cleaned text, appended without an LLM
\* call
VariantsCall ==
    /\ variants_pc = "idle"
    /\ \E c \in CleanedTexts : cleaned_text' = c
    /\ variants' = << [variant_type |-> variant_types[1], text |-> cleaned_text',
                       error |-> FALSE] >>
    /\ variant_index' = 0
    /\ variants_pc' = "loop"
    /\ UNCHANGED <<variant_outcomes, variant_llm_calls>>
    /\ UNCHANGED <<extract_vars, score_vars, bias_vars, batch_vars, server_vars>>

\* the loop body up to the LLM call for the next entry of variant_types[1:]
VariantLlmCall ==
    /\ variants_pc = "loop"
    /\ variant_llm_calls' = variant_llm_calls + 1
    /\ variants_pc' = "llm"
    /\ UNCHANGED <<cleaned_text, variant_index, variants, variant_outcomes>>
    /\ UNCHANGED <<extract_vars, score_vars, bias_vars, batch_vars, server_vars>>

\* the loop goes on to the next variant type, or ends and variants is returned
VariantLoopGoesOn ==
    /\ variant_index' = variant_index + 1
    /\ variants_pc' = IF variant_index' = Len(variant_types) - 1 THEN "done" ELSE "loop"

\* the LLM call returns: the stripped content is appended
VariantLlmReturns ==
    /\ variants_pc = "llm"
    /\ \E content \in VariantContents :
         /\ variant_outcomes' = Append(variant_outcomes, [kind |-> "ok", content |-> content])
         /\ variants' = Append(variants,
                [variant_type |-> variant_types[variant_index + 2],
                 text |-> Strip(content), error |-> FALSE])
    /\ VariantLoopGoesOn
    /\ UNCHANGED <<cleaned_text, variant_llm_calls>>
    /\ UNCHANGED <<extract_vars, score_vars, bias_vars, batch_vars, server_vars>>

\* the LLM call raises, or its content is None: the except clause runs
VariantLlmFails ==
    /\ variants_pc = "llm"
    /\ \E failure \in VariantFailures :
         /\ variant_outcomes' = Append(variant_outcomes, [kind |-> failure, content |-> <<>>])
         /\ variants' = AppendFailedVariant(variants, variant_types[variant_index + 2],
                                            failure)
    /\ VariantLoopGoesOn
    /\ UNCHANGED <<cleaned_text, variant_llm_calls>>
    /\ UNCHANGED <<extract_vars, score_vars, bias_vars, batch_vars, server_vars>>

VariantsNext ==
    \/ VariantsCall
    \/ VariantLlmCall
    \/ VariantLlmReturns
    \/ VariantLlmFails

(***************************************************************************)
(* The server process: com/mhire/app/main.py run by one uvicorn worker.    *)
(* Importing the application constructs the services and the configuration *)
(* singleton; afterwards the handlers, all coroutines (async def), run on  *)
(* the one thread of the event loop.                                       *)
(***************************************************************************)
\* the values of the OPENAI_API_KEY environment variable
EnvKeys == {None, Some(<<>>), Some(<<"s", "k">>)}

NoInstance == [id |-> 0, openai_api_key |-> None]

\* a constructor that builds and fills a new instance on every call
ConfigNewEveryCall(instance, env, reads) ==
    [instance |-> [id |-> reads + 1, openai_api_key |-> env], reads |-> reads + 1]

\* Config.__new__: the first call creates the instance and fills it from the
\* environment, every later call returns that instance
ConfigNew(instance, env, reads) ==
    IF instance = NoInstance
    THEN [instance |-> [id |-> reads + 1, openai_api_key |-> env],
          reads |-> reads + 1]
    ELSE [instance |-> instance, reads |-> reads]

\* the routes that answer a health request
HealthEndpoints == {"health", "bias_free_health", "bias_free_different_health"}

NoHealthBody == [kind |-> "none"]

ServerInit ==
    /\ app_state = "init"
    /\ environ = None
    /\ config_instance = NoInstance
    /\ env_reads = 0
    /\ openai_api_key = None
    /\ configs_returned = {}
    /\ health_pc = "idle"
    /\ health_endpoint = "none"
    /\ health_body = NoHealthBody

\* the process is started with some environment; main.py begins its imports
\* (the extraction router constructs nothing)
ProcessStarts ==
    /\ app_state = "init"
    /\ \E key \in EnvKeys : environ' = key
    /\ app_state' = "import_bias_free"
    /\ UNCHANGED <<config_instance, env_reads, openai_api_key, configs_returned>>
    /\ UNCHANGED <<extract_vars, score_vars, bias_vars, batch_vars, variant_vars, health_vars>>

\* a constructor without the test of the key
KeyCheckSkipped(key) == TRUE

\* if not openai.api_key: raise ValueError(...)
KeyCheckPasses(key) == Truthy(key)

\* BiasFreeService.__init__ (both services), run by the import of a router:
\* config = Config(); openai.api_key = config.openai_api_key; a false key
\* raises ValueError, and the import of the application fails
ServiceInit(next_state) ==
    LET made == ConfigNew(config_instance, environ, env_reads)
    IN  /\ config_instance' = made.instance
        /\ env_reads' = made.reads
        /\ configs_returned' = configs_returned \cup {made.instance.id}
        /\ openai_api_key' = made.instance.openai_api_key
        /\ app_state' = IF KeyCheckPasses(openai_api_key')
                        THEN next_state ELSE "failed"
        /\ UNCHANGED environ
        /\ UNCHANGED <<extract_vars, score_vars, bias_vars, batch_vars, variant_vars, health_vars>>

\* import of bias_free_router: bias_free_service = BiasFreeService()
ImportBiasFreeRouter ==
    /\ app_state = "import_bias_free"
    /\ ServiceInit("import_bias_free_different")

\* import of bias_free_different_router: bias_free_service = BiasFreeService();
\* the application is then assembled and uvicorn starts serving
ImportBiasFreeDifferentRouter ==
    /\ app_state = "import_bias_free_different"
    /\ ServiceInit("running")

\* a handler is inside a library call made as a plain synchronous call from
\* its coroutine: openai.chat.completions.create, pymupdf.open, page.get_text,
\* Image.open, pytesseract.image_to_string.  None of them is awaited or
\* handed to a thread, so the thread of the event loop is inside the call
\* until it returns.
EventLoopBusy ==
    \/ bias_pc = "llm"
    \/ extract_pc \in {"pdf_open", "pdf_pages", "image_open", "image_ocr"}

\* the routers of the services: the prefix and the routes each one declares,
\* a route being a method, a path and the handler it is bound to
Routers ==
    [ extraction |->
        [prefix |-> "/extraction",
         routes |-> { [method |-> "GET", path |-> "/health", handler |-> "extraction_health"],
                      [method |-> "POST", path |-> "/extract", handler |-> "extract_text"] }],
      bias_analysis |->
        [prefix |-> "/api/v1",
         routes |-> { [method |-> "POST", path |-> "/analyze", handler |-> "analyze"],
                      [method |-> "GET", path |-> "/health", handler |-> "bias_analysis_health"] }],
      bias_free |->
        [prefix |-> "/api/v1",
         routes |-> { [method |-> "POST", path |-> "/remove-bias", handler |-> "remove_bias"],
                      [method |-> "GET", path |-> "/bias-free/health",
                       handler |-> "bias_free_health"] }],
      bias_free_different |->
        [prefix |-> "/api/v2",
         routes |-> { [method |-> "POST", path |-> "/remove-bias",
                       handler |-> "remove_bias_different"],
                      [method |-> "GET", path |-> "/bias-free/health",
                       handler |-> "bias_free_different_health"] }] ]

\* an application that includes the router of every service
AllRouters == {"extraction", "bias_analysis", "bias_free", "bias_free_different"}

\* the app.include_router calls of main.py
IncludedRouters == {"extraction", "bias_free", "bias_free_different"}

\* the routes of the assembled application
AppRoutes ==
    UNION { { [method |-> r.method, prefix |-> Routers[name].prefix, path |-> r.path,
               handler |-> r.handler] : r \in Routers[name].routes }
            : name \in IncludedRouters }

\* the handler a request line is routed to, or 404 when no route matches
Resolve(line) ==
    LET matching == {r \in AppRoutes : /\ r.method = line.method
                                       /\ r.prefix = line.prefix
                                       /\ r.path = line.path}
    IN  IF matching = {} THEN "404" ELSE (CHOOSE r \in matching : TRUE).handler

\* the request line of each analysis and rewrite entry point
RequestLine(ep) ==
    IF ep = "analyze"
    THEN [method |-> "POST", prefix |-> "/api/v1", path |-> "/analyze"]
    ELSE IF ep = "remove_bias"
    THEN [method |-> "POST", prefix |-> "/api/v1", path |-> "/remove-bias"]
    ELSE [method |-> "POST", prefix |-> "/api/v2", path |-> "/remove-bias"]

\* the event loop picks up an analysis or rewrite request that the
\* application routes to its handler
ServeRewriteRequest ==
    /\ app_state = "running"
    /\ ~EventLoopBusy
    /\ extract_pc = "idle"
    /\ BiasRequest
    /\ Resolve(RequestLine(endpoint')) = endpoint'

\* the event loop picks up an analysis or rewrite request for which the
\* application has no route: it is answered 404 and no handler runs
ServeUnroutedRequest ==
    /\ app_state = "running"
    /\ ~EventLoopBusy
    /\ extract_pc = "idle"
    /\ bias_pc = "idle"
    /\ \E ep \in Endpoints, t \in RequestTexts :
         /\ Resolve(RequestLine(ep)) = "404"
         /\ endpoint' = ep
         /\ request_text' = t
    /\ bias_status' = 404
    /\ bias_pc' = "done"
    /\ UNCHANGED <<llm_calls, gpt_response, bias_body, bias_steps>>
    /\ UNCHANGED <<extract_vars, score_vars, batch_vars, variant_vars, server_vars>>

\* the event loop picks up an extraction request
ServeExtractRequest ==
    /\ app_state = "running"
    /\ ~EventLoopBusy
    /\ bias_pc = "idle"
    /\ ExtractRequest

\* a client sends a health request; the connection is accepted by the
\* operating system whether or not the event loop is free
HealthSent ==
    /\ app_state = "running"
    /\ health_pc \in {"idle", "done"}
    /\ \E ep \in HealthEndpoints : health_endpoint' = ep
    /\ health_pc' = "sent"
    /\ health_body' = NoHealthBody
    /\ UNCHANGED <<app_state, config_vars>>
    /\ UNCHANGED <<extract_vars, score_vars, bias_vars, batch_vars, variant_vars>>

\* GET /health of main.py, run by the event loop when it is free
AppHealthCheck ==
    /\ app_state = "running"
    /\ health_pc = "sent"
    /\ health_endpoint = "health"
    /\ ~EventLoopBusy
    /\ health_body' = [kind |-> "app", status |-> "healthy"]
    /\ health_pc' = "done"
    /\ UNCHANGED <<app_state, config_vars, health_endpoint>>
    /\ UNCHANGED <<extract_vars, score_vars, bias_vars, batch_vars, variant_vars>>

\* GET /api/v1/bias-free/health and /api/v2/bias-free/health: config = Config()
\* and the answer tells whether the key is set
ServiceHealthCheck ==
    /\ app_state = "running"
    /\ health_pc = "sent"
    /\ health_endpoint \in {"bias_free_health", "bias_free_different_health"}
    /\ ~EventLoopBusy
    /\ LET made == ConfigNew(config_instance, environ, env_reads)
       IN  /\ config_instance' = made.instance
           /\ env_reads' = made.reads
           /\ configs_returned' = configs_returned \cup {made.instance.id}
           /\ health_body' =
                [kind |-> "service", status |-> "healthy",
                 openai_configured |-> Truthy(made.instance.openai_api_key)]
    /\ health_pc' = "done"
    /\ UNCHANGED <<app_state, environ, openai_api_key, health_endpoint>>
    /\ UNCHANGED <<extract_vars, score_vars, bias_vars, batch_vars, variant_vars>>

ServerNext ==
    \/ ProcessStarts
    \/ ImportBiasFreeRouter
    \/ ImportBiasFreeDifferentRouter
    \/ ServeRewriteRequest
    \/ ServeUnroutedRequest
    \/ LlmFails
    \/ RewriteLlmReturns
    \/ ServeExtractRequest
    \/ PdfOpen
    \/ PdfOpenFails
    \/ PdfGetText
    \/ PdfGetTextFails
    \/ PdfClose
    \/ ImageOpen
    \/ ImageOpenFails
    \/ ImageToString
    \/ ImageToStringFails
    \/ HealthSent
    \/ AppHealthCheck
    \/ ServiceHealthCheck

(***************************************************************************)
(* One request to an extraction, analysis or rewrite endpoint, followed to *)
(* its response.                                                           *)
(***************************************************************************)
\* the steps after the arrival of the request: a library or LLM call returns
\* or raises and the handler runs on to its next call or to its response
HandlerProceeds ==
    \/ PdfOpen
    \/ PdfOpenFails
    \/ PdfGetText
    \/ PdfGetTextFails
    \/ PdfClose
    \/ ImageOpen
    \/ ImageOpenFails
    \/ ImageToString
    \/ ImageToStringFails
    \/ LlmFails
    \/ AnalyzeLlmReturns
    \/ RewriteLlmReturns

\* an extraction request arrives
OneExtractRequest == bias_pc = "idle" /\ ExtractRequest

\* an analysis or rewrite request arrives
OneBiasRequest == extract_pc = "idle" /\ BiasRequest

RequestNext ==
    \/ OneExtractRequest
    \/ OneBiasRequest
    \/ HandlerProceeds

(***************************************************************************)
(* Specifications.                                                         *)
(***************************************************************************)
\* the classifier is applied to any score; the flows are idle
ScoreFlowInit ==
    /\ ExtractInit
    /\ ScoreInit
    /\ BiasInit
    /\ BatchInit
    /\ VariantsInit
    /\ ServerInit

\* the flows start idle; the classifier's variables stay as they are
Init ==
    /\ ExtractInit
    /\ score = 0 /\ bias_type = "none" /\ bias_classification = "none"
    /\ prompt_breakdown = <<>> /\ prompt_categories = <<>>
    /\ BiasInit
    /\ BatchInit
    /\ VariantsInit
    /\ ServerInit

\* the extraction flow
SpecExtract == Init /\ [][ExtractNext]_vars

\* the score classifier
SpecScore == ScoreFlowInit /\ [][ScoreNext]_vars

\* the analysis and rewrite flows
SpecBias == Init /\ [][BiasNext]_vars

\* the batch flow
SpecBatch == Init /\ [][BatchNext]_vars

\* the server process: start-up, one long request, health requests
SpecServer == Init /\ [][ServerNext]_vars

\* the variant generator
SpecVariants == Init /\ [][VariantsNext]_vars

\* one request to an extraction, analysis or rewrite endpoint; every call to
\* the LLM, the PDF parser or the OCR engine eventually returns or raises,
\* and the handler goes on from there
SpecRequestFair ==
    Init /\ [][RequestNext]_vars /\ WF_vars(HandlerProceeds)

(***************************************************************************)
(* Properties.                                                             *)
(***************************************************************************)
\* C1: for every integer score s in 0..100, determine_bias_type(s) is Low Bias
\* exactly when 67 <= s <= 100, Moderate Bias exactly when 34 <= s <= 66 and
\* High Bias exactly when 0 <= s <= 33; 33 is High, 34 and 66 are Moderate,
\* 67 is Low.
C1_BiasTypeThresholds ==
    (bias_type # "none" /\ score \in 0..100) =>
        /\ bias_type = "Low Bias" <=> score \in 67..100
        /\ bias_type = "Moderate Bias" <=> score \in 34..66
        /\ bias_type = "High Bias" <=> score \in 0..33
        /\ score = 33 => bias_type = "High Bias"
        /\ score \in {34, 66} => bias_type = "Moderate Bias"
        /\ score = 67 => bias_type = "Low Bias"

\* C1 witness: the classifier has been applied to the boundary score 34
C1_Witness == score = 34 /\ bias_type = "Moderate Bias"

\* every character of t is whitespace (the empty text included)
WhitespaceOnly(t) == \A i \in 1..Len(t) : t[i] \in Whitespace

\* C2: at the analysis entry point and at both rewrite entry points, a request
\* whose text is empty or whitespace-only ends with HTTP 400, and no call to
\* the LLM is ever made for it.
C2_BlankTextNeverReachesLlm ==
    (bias_pc # "idle" /\ WhitespaceOnly(request_text)) =>
        /\ bias_pc = "done"
        /\ bias_status = 400
        /\ llm_calls = 0
        /\ gpt_response = NoResponse

\* C2 witness: a whitespace-only text has been rejected at a rewrite entry point
C2_Witness ==
    /\ bias_pc = "done"
    /\ endpoint = "remove_bias_different"
    /\ request_text = <<" ", "\t">>
    /\ bias_status = 400

\* the documents of the batch whose analysis succeeded
Succeeded == {i \in DOMAIN doc_outcome : doc_outcome[i] = "ok"}

\* C3: in batch_analyze no failure of one document aborts the batch: when the
\* request is over every document has been analysed, the results are exactly
\* the documents whose analysis succeeded, in the order of the list, and
\* total_documents is their number.
C3_BatchSurvivesFailures ==
    batch_pc = "done" =>
        /\ \A i \in DOMAIN documents : doc_outcome[i] # "pending"
        /\ {results[k].doc : k \in DOMAIN results} = Succeeded
        /\ Len(results) = Cardinality(Succeeded)
        /\ \A k \in 1..(Len(results) - 1) : results[k].doc < results[k + 1].doc
        /\ batch_body.results = results
        /\ batch_body.total_documents = Cardinality(Succeeded)

\* C3 witness: three documents, the second failed on the LLM call, the batch
\* holds the other two
C3_Witness ==
    /\ batch_pc = "done"
    /\ Len(documents) = 3
    /\ doc_outcome = <<"ok", "HTTPException", "ok">>
    /\ documents[2].has_text /\ ~IsBlank(documents[2].text)
    /\ batch_body.total_documents = 2

\* C4 as stated: batch_analyze always answers with a batch response whose
\* average_seev_score is the sum of the succeeded documents' scores divided
\* by their number, and 0 when no document succeeded.
C4_AverageIsExactQuotient ==
    batch_pc = "done" =>
        /\ batch_status = 200
        /\ results = <<>> => batch_body.average_seev_score_x100 = 0
        /\ results # <<>> =>
             batch_body.average_seev_score_x100 * Len(results)
                = 100 * SumScores(results)

\* C4 amended: batch_analyze always answers with a batch response whose
\* average_seev_score is the sum of the succeeded documents' scores divided
\* by their number, rounded to two decimal places, and 0 when no document
\* succeeded.
C4_AverageIsRoundedQuotient ==
    batch_pc = "done" =>
        /\ batch_status = 200
        /\ results = <<>> => batch_body.average_seev_score_x100 = 0
        /\ results # <<>> =>
             LET d == batch_body.average_seev_score_x100 * Len(results)
                        - 100 * SumScores(results)
             IN  2 * d <= Len(results) /\ -2 * d <= Len(results)

\* C4 witness: three documents succeeded with scores 0, 0 and 1, and the
\* average is 0.33
C4_Witness ==
    /\ batch_pc = "done"
    /\ Len(results) = 3
    /\ SumScores(results) = 1
    /\ batch_body.average_seev_score_x100 = 33

\* the upload's MIME type and filename, lower-cased, absent counting as empty
MimeLower == IF content_type.some THEN Lower(content_type.val) ELSE <<>>
NameLower == IF filename.some THEN Lower(filename.val) ELSE <<>>

\* the upload is identified as a PDF by its MIME type or by its extension
IdentifiedPdf == MimeLower = APPLICATION_PDF \/ EndsWith(NameLower, DOT_PDF)

\* C5: detect_file_type checks PDF before image: if the lower-cased MIME type
\* is application/pdf or the lower-cased filename ends in .pdf the result is
\* pdf, also when the other input indicates an image.
C5_PdfCheckedFirst ==
    (file_type # "none" /\ IdentifiedPdf) => file_type = "pdf"

\* C5 witness: MIME image/png with filename report.PDF was classified as pdf
C5_Witness ==
    /\ content_type = Some(IMAGE_PNG)
    /\ filename = Some(<<"r", "e", "p", "o", "r", "t", ".", "P", "D", "F">>)
    /\ file_type = "pdf"

\* the image test as the specification words it
ImageByMimeOrExtension ==
    \/ \E m \in {IMAGE_JPEG, IMAGE_PNG, IMAGE_JPG, IMAGE_WEBP, IMAGE_TIFF} :
         \E i \in 1..Len(MimeLower) :
           i + Len(m) - 1 <= Len(MimeLower) /\ SubSeq(MimeLower, i, i + Len(m) - 1) = m
    \/ \E e \in {DOT_JPG, DOT_JPEG, DOT_PNG, DOT_WEBP, DOT_TIFF, DOT_BMP, DOT_GIF} :
         EndsWith(NameLower, e)

\* C6: for an upload not classified as pdf, detect_file_type returns image
\* exactly when the lower-cased MIME type contains one of the image MIME
\* strings or the lower-cased filename ends in one of the image extensions;
\* otherwise (both absent or empty included) the unsupported-type error is
\* signalled and nothing is returned.
C6_ImageOrUnsupported ==
    (file_type \notin {"none", "pdf"}) =>
        /\ file_type = "image" <=> ImageByMimeOrExtension
        /\ ~ImageByMimeOrExtension =>
             /\ file_type = "ValueError"
             /\ extract_pc = "done"
             /\ extract_status = 400
             /\ extract_body = <<>>
        /\ (~Truthy(content_type) /\ ~Truthy(filename)) => file_type = "ValueError"

\* C6 witness: a MIME type that contains image/png, with no filename, was
\* classified as image
C6_Witness ==
    /\ content_type = Some(<<"i", "m", "a", "g", "e", "/", "p", "n", "g", ";", "q", "=", "1">>)
    /\ filename = None
    /\ file_type = "image"

\* the seven image formats the endpoint documents as supported
SupportedFormats ==
    { <<"j", "p", "g">>, <<"j", "p", "e", "g">>, <<"p", "n", "g">>,
      <<"w", "e", "b", "p">>, <<"t", "i", "f", "f">>, <<"b", "m", "p">>,
      <<"g", "i", "f">> }

\* the upload is identified as a supported image format by its MIME type
\* image/<format> or by its extension .<format>
IdentifiedImage ==
    \E f \in SupportedFormats :
        \/ MimeLower = <<"i", "m", "a", "g", "e", "/">> \o f
        \/ EndsWith(NameLower, <<".">> \o f)

\* C7: an upload identified as JPG, JPEG, PNG, WEBP, TIFF, BMP or GIF, by its
\* MIME type or by its extension, is classified as image and never rejected
\* as unsupported.
C7_SupportedImagesAccepted ==
    (file_type # "none" /\ IdentifiedImage /\ ~IdentifiedPdf) => file_type = "image"

\* C8: an unsupported file type is answered 400; a failure inside the PDF or
\* OCR library, whatever the type of the exception (ValueError included), is
\* answered 500 and never 400; otherwise the answer is 200 with the extracted
\* text.
C8_ExtractStatuses ==
    extract_pc = "done" =>
        /\ file_type = "ValueError" => extract_status = 400
        /\ lib_error # "none" => extract_status = 500
        /\ (file_type \in {"pdf", "image"} /\ lib_error = "none") =>
             extract_status = 200 /\ extract_body = Strip(text)

\* C8 witness: the PDF library raised a ValueError and the answer was 500
C8_Witness ==
    /\ extract_pc = "done"
    /\ file_type = "pdf"
    /\ lib_error = "ValueError"
    /\ extract_status = 500

\* C9: after extract_text_from_pdf finishes, with a text or with an error
\* raised while reading a page, the document that was opened has been closed.
C9_DocumentAlwaysClosed ==
    (extract_pc = "done" /\ doc_state # "none") => doc_state = "closed"

RECURSIVE JoinPages(_)
\* the page texts joined with two newlines between consecutive pages
JoinPages(pages) ==
    IF pages = <<>> THEN <<>>
    ELSE IF Len(pages) = 1 THEN pages[1].text
    ELSE pages[1].text \o <<"\n", "\n">> \o JoinPages(Tail(pages))

\* C10: for a PDF whose n pages have the texts t1..tn, extract_text_from_pdf
\* returns them concatenated in page order with exactly two newlines between
\* consecutive pages and nothing after the last; n = 0 gives the empty
\* string and n = 1 gives t1.
C10_PagesJoinedByBlankLine ==
    (extract_pc = "done" /\ file_type = "pdf" /\ lib_error = "none") =>
        /\ text = JoinPages(pdf_document)
        /\ Len(pdf_document) = 0 => text = <<>>
        /\ Len(pdf_document) = 1 => text = pdf_document[1].text

\* C10 witness: the pages A and B were returned as A, two newlines, B
C10_Witness ==
    /\ extract_pc = "done"
    /\ doc_state = "closed"
    /\ Len(pdf_document) = 2
    /\ pdf_document[1].text = <<"A">>
    /\ pdf_document[2].text = <<"B">>
    /\ text = <<"A", "\n", "\n", "B">>

\* a text made of whitespace only (the empty text included)
AllWhitespace(t) == \A i \in 1..Len(t) : t[i] \in Whitespace

\* C11: every text returned by extract_text, on the PDF path and on the image
\* path, neither starts nor ends with whitespace, and it is the text the
\* library produced with nothing but whitespace cut off its two ends: the
\* interior, page separators included, is unchanged.
C11_ReturnedTextIsStripped ==
    (extract_pc = "done" /\ extract_status = 200) =>
        /\ extract_body # <<>> =>
              /\ Head(extract_body) \notin Whitespace
              /\ extract_body[Len(extract_body)] \notin Whitespace
        /\ \E i \in 0..Len(text) :
              /\ i + Len(extract_body) <= Len(text)
              /\ AllWhitespace(SubSeq(text, 1, i))
              /\ SubSeq(text, i + 1, i + Len(extract_body)) = extract_body
              /\ AllWhitespace(SubSeq(text, i + Len(extract_body) + 1, Len(text)))

\* C11 witness: a two-page PDF whose joined text had whitespace at both ends
\* was returned without it, the page separator kept
C11_Witness ==
    /\ extract_pc = "done"
    /\ extract_status = 200
    /\ file_type = "pdf"
    /\ text = <<" ", "A", "\n", "\n", "\n", " ", "A", "\n">>
    /\ extract_body = <<"A", "\n", "\n", "\n", " ", "A">>

\* an analysis request that was answered 200
AnalysisAnswered ==
    /\ bias_pc = "done"
    /\ endpoint = "analyze"
    /\ bias_status = 200

\* the positions of the LLM's category list whose score is above 0
PositiveAt(categories) == {i \in DOMAIN categories : categories[i].score > 0}

\* the k-th smallest position in a set of positions
KthOf(positions, k) ==
    CHOOSE i \in positions : Cardinality({j \in positions : j <= i}) = k

\* C12: format_bias_breakdown returns exactly the categories whose score is
\* greater than 0, in the order the LLM listed them, each with its
\* category_name and score unchanged; when every score is in 0..100 the
\* entries left out are exactly the entries with score 0.
C12_BreakdownKeepsPositiveScores ==
    AnalysisAnswered =>
        LET categories == gpt_response.json.categories
            kept == PositiveAt(categories)
            bias_breakdown == bias_body.bias_breakdown
        IN  /\ Len(bias_breakdown) = Cardinality(kept)
            /\ \A k \in 1..Len(bias_breakdown) :
                  bias_breakdown[k] = categories[KthOf(kept, k)]
            /\ (\A i \in DOMAIN categories : categories[i].score \in 0..100) =>
                  DOMAIN categories \ kept =
                      {i \in DOMAIN categories : categories[i].score = 0}

\* C12 witness: the list (Gender Bias, 0), (Framing Bias, 1) was returned as
\* the one entry (Framing Bias, 1)
C12_Witness ==
    /\ AnalysisAnswered
    /\ gpt_response.json.categories =
          << [category_name |-> "Gender Bias", score |-> 0],
             [category_name |-> "Framing Bias", score |-> 1] >>
    /\ bias_body.bias_breakdown = << [category_name |-> "Framing Bias", score |-> 1] >>

\* the number of entries of a category list with a score below 67
BelowThreshold(categories) ==
    Cardinality({i \in DOMAIN categories : categories[i].score < 67})

\* C13: detected_bias_count is the number of categories with score below 67
\* in the list the LLM returned, before the zero-score filter: a category
\* with score 0 is counted although it is removed from bias_breakdown, so
\* the count is the number of returned entries below 67 plus the number of
\* entries the filter removed.
C13_CountIsOverUnfilteredList ==
    AnalysisAnswered =>
        LET categories == gpt_response.json.categories
            removed == DOMAIN categories \ PositiveAt(categories)
        IN  /\ bias_body.detected_bias_count = BelowThreshold(categories)
            /\ bias_body.detected_bias_count =
                  BelowThreshold(bias_body.bias_breakdown) + Cardinality(removed)

\* C13 witness: (Gender Bias, 0), (Framing Bias, 67) gave the count 1 while
\* the breakdown holds only (Framing Bias, 67)
C13_Witness ==
    /\ AnalysisAnswered
    /\ gpt_response.json.categories =
          << [category_name |-> "Gender Bias", score |-> 0],
             [category_name |-> "Framing Bias", score |-> 67] >>
    /\ bias_body.detected_bias_count = 1
    /\ Len(bias_body.bias_breakdown) = 1

\* C14: in every analysis result, bias_type is the threshold classification
\* of overall_seev_score, and detected_bias_count is the number of entries of
\* the returned bias_breakdown whose score is below 67.  Stated for the LLM
\* answers whose category scores are all in 0..100.
C14_ResultRecomputable ==
    (/\ AnalysisAnswered
     /\ \A i \in DOMAIN gpt_response.json.categories :
           gpt_response.json.categories[i].score \in 0..100) =>
        /\ bias_body.bias_type =
              (IF bias_body.overall_seev_score <= 33 THEN "High Bias"
               ELSE IF bias_body.overall_seev_score <= 66 THEN "Moderate Bias"
               ELSE "Low Bias")
        /\ bias_body.detected_bias_count = BelowThreshold(bias_body.bias_breakdown)

\* C15: in every 200 response of the analyze endpoint, overall_seev_score
\* and the score of every bias_breakdown entry are integers from 0 to 100,
\* whatever scores the LLM answer carried.
C15_AnsweredScoresInRange ==
    AnalysisAnswered =>
        /\ bias_body.overall_seev_score \in 0..100
        /\ \A k \in DOMAIN bias_body.bias_breakdown :
              bias_body.bias_breakdown[k].score \in 0..100

\* C15 witness: an LLM answer holding a category with score -1 was answered
\* 200, the overall score 100 and the breakdown within range
C15_Witness ==
    /\ AnalysisAnswered
    /\ \E i \in DOMAIN gpt_response.json.categories :
          gpt_response.json.categories[i].score = -1
    /\ bias_body.overall_seev_score = 100
    /\ Len(bias_body.bias_breakdown) = 1
    /\ bias_body.bias_breakdown[1].score = 100

\* C16: the analysis flow and both rewrite flows make at most one LLM call
\* per request; when the call raises or its payload is not valid JSON the
\* request ends with HTTP 500 and no body, without a second call.
C16_OneLlmCallNoRetry ==
    /\ llm_calls <= 1
    /\ bias_pc = "llm" => llm_calls = 1
    /\ gpt_response.kind \in LlmFailures =>
          /\ bias_pc = "done"
          /\ bias_status = 500
          /\ bias_body = NoBody
          /\ llm_calls = 1

\* C16 witness: the payload of a rewrite request was not JSON and the
\* request ended with 500 after its one call
C16_Witness ==
    /\ endpoint = "remove_bias_different"
    /\ gpt_response.kind = "bad_json"
    /\ bias_pc = "done"
    /\ bias_status = 500
    /\ llm_calls = 1

\* the analysis flow received parsed JSON from the LLM
AnalysisJsonReceived ==
    /\ bias_pc = "done"
    /\ endpoint = "analyze"
    /\ gpt_response.kind = "json"

\* C17: in the analysis flow, parsed JSON that lacks overall_score,
\* categories or summary ends the request with HTTP 500 and no body; a
\* missing title alone is not an error: the title of the response is then
\* "Bias Analysis Session", and the supplied title otherwise.
C17_RequiredKeysAndDefaultTitle ==
    AnalysisJsonReceived =>
        LET json == gpt_response.json
        IN  /\ (\E k \in {"overall_score", "categories", "summary"} : k \notin json.keys) =>
                  bias_status = 500 /\ bias_body = NoBody
            /\ (/\ json.keys = {"overall_score", "categories", "summary"}
                 /\ json.overall_score \in 0..100
                 /\ \A i \in DOMAIN json.categories : json.categories[i].score <= 100) =>
                  bias_status = 200 /\ bias_body.title = "Bias Analysis Session"
            /\ (bias_status = 200 /\ "title" \in json.keys) =>
                  bias_body.title = json.title

\* C17 witness: an answer without title was answered 200 with the default title
C17_Witness ==
    /\ AnalysisJsonReceived
    /\ "title" \notin gpt_response.json.keys
    /\ bias_status = 200
    /\ bias_body.title = "Bias Analysis Session"

\* a rewrite request of either service received parsed JSON from the LLM
RewriteJsonReceived ==
    /\ bias_pc = "done"
    /\ endpoint \in {"remove_bias", "remove_bias_different"}
    /\ gpt_response.kind = "json"

LongCallInProgress ==
    \/ bias_pc = "llm"
    \/ extract_pc \in {"pdf_open", "pdf_pages", "image_open", "image_ocr"}

\* C19: while the handler of one request waits on the LLM call or on the
\* OCR/PDF extraction, another request that has arrived, such as a health
\* check, can be handled and answered: the slow request does not block it.
C19_SlowRequestDoesNotBlockOthers ==
    (LongCallInProgress /\ health_pc = "sent") =>
        ENABLED (AppHealthCheck \/ ServiceHealthCheck)

\* C20: the configuration singleton is initialised once, before any request
\* is handled: the environment is read at most once and exactly once when
\* the server is running, every Config() call has returned the one instance,
\* and while requests are handled the configuration and openai.api_key hold
\* the values read at start-up; no step taken while the server is running
\* writes them.
C20_ConfigInitialisedOnce ==
    /\ [](/\ env_reads <= 1
          /\ Cardinality(configs_returned) <= 1
          /\ app_state = "running" =>
                /\ env_reads = 1
                /\ configs_returned = {config_instance.id}
                /\ config_instance.openai_api_key = environ
                /\ openai_api_key = environ
          /\ (bias_pc # "idle" \/ extract_pc # "idle" \/ health_pc # "idle") =>
                app_state = "running" /\ config_instance # NoInstance)
    /\ [][app_state = "running" =>
            UNCHANGED <<config_instance, env_reads, openai_api_key, environ>>]_vars

\* C20 witness: a service health check has called Config() while a rewrite
\* request was answered, and the one instance built at start-up was returned
C20_Witness ==
    /\ app_state = "running"
    /\ health_pc = "done"
    /\ health_endpoint = "bias_free_health"
    /\ bias_pc = "done"
    /\ env_reads = 1
    /\ configs_returned = {1}

\* the documents of the batch for which the loop has made an LLM call and is
\* done with
CalledAndFinished ==
    {i \in 1..doc_index : documents[i].has_text /\ ~IsBlank(documents[i].text)}

\* the LLM calls of the batch that were made and have not yet ended
CallsInFlight == batch_llm_calls - Cardinality(CalledAndFinished)

\* C21: within one batch_analyze request the documents are analysed one
\* after another in list order: the documents the loop is done with are a
\* prefix of the list, so document i+1 is started only when document i has
\* succeeded or failed; at most one LLM call of the batch is in flight, and
\* only while the loop is inside that call; the results are in the relative
\* order of the documents.
C21_BatchIsSequential ==
    batch_pc # "idle" =>
        /\ \A i \in DOMAIN documents : doc_outcome[i] # "pending" <=> i <= doc_index
        /\ CallsInFlight \in {0, 1}
        /\ CallsInFlight = 1 <=> batch_pc = "llm"
        /\ \A k \in 1..(Len(results) - 1) : results[k].doc < results[k + 1].doc
        /\ \A k \in DOMAIN results : results[k].doc <= doc_index

\* C21 witness: the call for the third document is in flight after the first
\* succeeded and the second failed on its own call
C21_Witness ==
    /\ batch_pc = "llm"
    /\ doc_index = 2
    /\ doc_outcome = <<"ok", "HTTPException", "pending">>
    /\ documents[2].has_text /\ ~IsBlank(documents[2].text)
    /\ batch_llm_calls = 3
    /\ Len(results) = 1

\* the terminal state of an extraction request: 200 with the text, or 400 or
\* 500 with no text
ExtractTerminal ==
    /\ extract_status \in {200, 400, 500}
    /\ extract_status # 200 => extract_body = <<>>
    /\ extract_status = 200 => lib_error = "none" /\ file_type \in {"pdf", "image"}

\* the terminal state of an analysis or rewrite request: 200 with the body of
\* its endpoint, or 400 or 500 with no body
BiasTerminal ==
    /\ bias_status \in {200, 400, 500}
    /\ bias_status # 200 => bias_body = NoBody
    /\ bias_status = 200 =>
          bias_body.kind = (IF endpoint = "analyze" THEN "analysis" ELSE "rewrite")

\* C22: provided every LLM, OCR and PDF call eventually returns or raises,
\* every request to an extraction, analysis or rewrite endpoint eventually
\* reaches a terminal state, which is 200 with the typed body or 400 or 500
\* without one; nothing of the response exists before that state, and once
\* it is reached the request takes no further step (no retry).
C22_EveryRequestTerminates ==
    /\ (extract_pc \notin {"idle", "done"}) ~> (extract_pc = "done")
    /\ (bias_pc = "llm") ~> (bias_pc = "done")
    /\ [](extract_pc = "done" => ExtractTerminal)
    /\ [](bias_pc = "done" => BiasTerminal)
    /\ [](extract_pc # "done" => extract_status = 0 /\ extract_body = <<>>)
    /\ [](bias_pc # "done" => bias_status = 0 /\ bias_body = NoBody)
    /\ [][extract_pc = "done" => UNCHANGED extract_vars]_vars
    /\ [][bias_pc = "done" => UNCHANGED bias_vars]_vars

\* C22 witness: a two-page PDF whose second page raised has been answered 500
\* without a text
C22_Witness ==
    /\ extract_pc = "done"
    /\ Len(pdf_document) = 2
    /\ page_num = 1
    /\ lib_error # "none"
    /\ extract_status = 500
    /\ extract_body = <<>>

\* a PDF or OCR library call has been made (it may still be in progress)
LibraryInvoked ==
    \/ extract_pc \in {"pdf_open", "pdf_pages", "image_open", "image_ocr"}
    \/ doc_state # "none"
    \/ image_mode # "none"
    \/ lib_error # "none"
    \/ page_num > 0

\* the positions of a step in the steps taken by the service
StepAt(name) == {i \in DOMAIN bias_steps : bias_steps[i] = name}

\* C23: within one request the steps are in order.  Extraction: a PDF or OCR
\* library is invoked only after the file type has been classified, only
\* the library of that type, and none at all for an unsupported type.
\* Analysis and rewrite: the prompt is built before the model is called, and
\* the result is shaped only after the call has returned parsed JSON; each
\* step is taken at most once.
C23_StepsInOrder ==
    /\ LibraryInvoked => file_type \in {"pdf", "image"}
    /\ file_type = "pdf" => image_mode = "none"
    /\ file_type = "image" => doc_state = "none" /\ page_num = 0
    /\ file_type = "ValueError" => ~LibraryInvoked /\ extract_pc = "done"
    /\ \A name \in {"validate", "prompt", "call", "shape"} :
          Cardinality(StepAt(name)) <= 1
    /\ \A i \in StepAt("call") : \E k \in StepAt("prompt") : k < i
    /\ \A i \in StepAt("prompt") : \E k \in StepAt("validate") : k < i
    /\ \A i \in StepAt("shape") :
          /\ \E k \in StepAt("call") : k < i
          /\ gpt_response.kind = "json"
    /\ llm_calls = Cardinality(StepAt("call"))
    /\ gpt_response.kind \in LlmFailures => StepAt("shape") = {}

\* C23 witness: an analysis request went through validate, prompt, call and
\* shape, in that order
C23_Witness ==
    /\ endpoint = "analyze"
    /\ bias_pc = "done"
    /\ bias_status = 200
    /\ bias_steps = <<"validate", "prompt", "call", "shape">>

\* C24: the assembled application routes POST /api/v1/analyze,
\* POST /api/v1/remove-bias and POST /api/v2/remove-bias each to its handler:
\* a request to any of the three is validated by the handler of that entry
\* point and is never answered 404.
C24_AllRouteGroupsExposed ==
    (app_state = "running" /\ bias_pc # "idle") =>
        /\ bias_status # 404
        /\ Resolve(RequestLine(endpoint)) = endpoint
        /\ bias_steps # <<>>

\* the colour models that carry an alpha channel
AlphaModes == {"RGBA", "LA", "PA"}

\* C25: on the image path, an image decoded with an alpha channel (RGBA, LA,
\* PA) is handed to the OCR engine as an opaque 3-channel (RGB) image, and an
\* image without alpha is handed over in the mode it was decoded in.
C25_AlphaFlattenedBeforeOcr ==
    (file_type = "image" /\ decoded_mode # "none") =>
        /\ decoded_mode \in AlphaModes => image_mode = "RGB"
        /\ decoded_mode \notin AlphaModes => image_mode = decoded_mode

\* C26: call_gpt4_for_variants returns exactly 7 variants in the order of
\* variant_types whatever subset of its LLM calls fails: the first is the
\* cleaned text and costs no LLM call; each later entry comes from exactly
\* one LLM call, made in list order; a failed call gives an entry whose text
\* is the error message and the remaining variants are still generated.
C26_SevenVariantsAlways ==
    variants_pc # "idle" =>
        /\ variants[1] = [variant_type |-> "SEEV-screened revised version",
                          text |-> cleaned_text, error |-> FALSE]
        /\ Len(variants) = 1 + Len(variant_outcomes)
        /\ variant_llm_calls = Len(variant_outcomes) + (IF variants_pc = "llm" THEN 1 ELSE 0)
        /\ \A i \in DOMAIN variants : variants[i].variant_type = variant_types[i]
        /\ \A k \in DOMAIN variant_outcomes :
              IF variant_outcomes[k].kind = "ok"
              THEN /\ ~variants[k + 1].error
                   /\ variants[k + 1].text = Strip(variant_outcomes[k].content)
              ELSE /\ variants[k + 1].error
                   /\ variants[k + 1].text[1] = "Error generating variant: "
        /\ variants_pc = "done" <=> Len(variants) = 7
        /\ variants_pc = "done" => variant_llm_calls = 6

\* C26 witness: the second and the last call failed and seven variants were
\* returned after six calls
C26_Witness ==
    /\ variants_pc = "done"
    /\ Len(variants) = 7
    /\ variants[3].error
    /\ variants[7].error
    /\ ~variants[4].error
    /\ variants[7].variant_type = "Child-accessible version"
    /\ variant_llm_calls = 6

\* the level named by a classification string
Level(label) ==
    IF label \in {"High Bias", "High Bias (severely problematic)"} THEN "High"
    ELSE IF label \in {"Moderate Bias", "Moderate Bias (some concerns)"} THEN "Moderate"
    ELSE IF label \in {"Low Bias", "Low Bias (trustworthy, neutral)"} THEN "Low"
    ELSE "none"

\* the level of a score: High for 0..33, Moderate for 34..66, Low for 67..100
Band(s) == IF s \in 0..33 THEN "High" ELSE IF s \in 34..66 THEN "Moderate" ELSE "Low"

\* the positions of a breakdown whose score is below 67
ListedAt(bias_breakdown) == {i \in DOMAIN bias_breakdown : bias_breakdown[i].score < 67}

\* C27: for every integer score in 0..100 the classifiers agree:
\* determine_bias_type and _get_bias_classification both give High for
\* 0..33, Moderate for 34..66 and Low for 67..100; the v1 rewrite prompt lists
\* exactly the categories with score below 67, in their original order, and
\* labels each of them with that same level.
C27_ClassifiersAgree ==
    /\ (score \in 0..100 /\ bias_type # "none") => Level(bias_type) = Band(score)
    /\ (score \in 0..100 /\ bias_classification # "none") =>
          Level(bias_classification) = Band(score)
    /\ (bias_type # "none" /\ bias_classification # "none") =>
          Level(bias_type) = Level(bias_classification)
    /\ (\A i \in DOMAIN prompt_breakdown : prompt_breakdown[i].score \in 0..100) =>
          /\ Len(prompt_categories) = Cardinality(ListedAt(prompt_breakdown))
          /\ \A k \in DOMAIN prompt_categories :
                LET item == prompt_breakdown[KthOf(ListedAt(prompt_breakdown), k)]
                IN  /\ prompt_categories[k].category_name = item.category_name
                    /\ prompt_categories[k].score = item.score
                    /\ Level(prompt_categories[k].label) = Band(item.score)

\* C27 witness: for the score 33 both classifiers said High, and the v1 prompt
\* listed it second, after a category at 66 labelled Moderate
C27_Witness ==
    /\ score = 33
    /\ bias_type = "High Bias"
    /\ bias_classification = "High Bias (severely problematic)"
    /\ Len(prompt_categories) = 2
    /\ prompt_categories[1].label = "Moderate Bias"
    /\ prompt_categories[2] =
          [category_name |-> "Gender Bias", score |-> 33, label |-> "High Bias"]

\* the API key of the environment is set to a non-empty string
KeyConfigured == environ.some /\ Len(environ.val) > 0

\* C28: in the assembled application no rewrite request and no rewrite
\* health request is served while the LLM API key is unconfigured: building a
\* service without a key fails at start-up, so the server runs only with a
\* key, and every answer of /api/v1/bias-free/health or
\* /api/v2/bias-free/health has openai_configured = true.
C28_ServedOnlyWithApiKey ==
    /\ app_state = "running" => KeyConfigured
    /\ ~KeyConfigured => app_state \in {"init", "import_bias_free", "failed"}
    /\ (bias_pc # "idle" \/ health_pc # "idle") => KeyConfigured
    /\ health_body.kind = "service" => health_body.openai_configured

\* C28 witness: the v2 rewrite health check was answered, with
\* openai_configured = true
C28_Witness ==
    /\ health_pc = "done"
    /\ health_endpoint = "bias_free_different_health"
    /\ health_body = [kind |-> "service", status |-> "healthy",
                      openai_configured |-> TRUE]

\* the positions of the LLM's category list with a negative score
NegativeAt(categories) == {i \in DOMAIN categories : categories[i].score < 0}

\* C29: the analysis flow never clamps an out-of-range score of the LLM: a
\* category score above 100, or an overall_score outside 0..100, ends the
\* analyze request with HTTP 500; a category with a negative score is left
\* out of bias_breakdown, is still counted in detected_bias_count, and the
\* request succeeds with every returned score as the LLM gave it.
C29_OutOfRangeScoresNotClamped ==
    (AnalysisJsonReceived /\ RequiredKeys \subseteq gpt_response.json.keys) =>
        LET json == gpt_response.json
            too_high == \E i \in DOMAIN json.categories : json.categories[i].score > 100
            negative == NegativeAt(json.categories)
        IN  /\ too_high => bias_status = 500 /\ bias_body = NoBody
            /\ json.overall_score \notin 0..100 => bias_status = 500 /\ bias_body = NoBody
            /\ (~too_high /\ json.overall_score \in 0..100) =>
                  /\ bias_status = 200
                  /\ bias_body.overall_seev_score = json.overall_score
                  /\ \A k \in DOMAIN bias_body.bias_breakdown :
                        \E i \in DOMAIN json.categories \ negative :
                            bias_body.bias_breakdown[k] = json.categories[i]
                  /\ Len(bias_body.bias_breakdown) <=
                        Len(json.categories) - Cardinality(negative)
                  /\ bias_body.detected_bias_count >= Cardinality(negative)
                  /\ bias_body.detected_bias_count =
                        BelowThreshold(bias_body.bias_breakdown)
                          + Cardinality(DOMAIN json.categories \ PositiveAt(json.categories))

\* C29 witness: the answer (Gender Bias, -1), (Framing Bias, 100) with the
\* overall score 67 was answered 200 with the one entry (Framing Bias, 100)
\* and the count 1
C29_Witness ==
    /\ AnalysisJsonReceived
    /\ gpt_response.json.overall_score = 67
    /\ gpt_response.json.categories =
          << [category_name |-> "Gender Bias", score |-> -1],
             [category_name |-> "Framing Bias", score |-> 100] >>
    /\ bias_status = 200
    /\ bias_body.bias_breakdown = << [category_name |-> "Framing Bias", score |-> 100] >>
    /\ bias_body.detected_bias_count = 1

====
